---------------------------- MODULE Spec2Model ----------------------------
(***************************************************************************)
(* WallProjections hand-tracking scripts: the press state of a hotspot     *)
(* (_Button), the hotspot (Hotspot), the per-frame loops run and run2 with *)
(* their arbitration between hotspots, the media_finished hook, the marker *)
(* layout of the calibration pattern and the Calibrator.                   *)
(*                                                                         *)
(* Time is the reading of time.time() in clock ticks of 3/4 s, so that     *)
(* BUTTON_COOLDOWN (1.5 s) is 2 ticks.  A pressed amount is kept in units  *)
(* of 1/BUTTON_COOLDOWN: the amount 1.0 of the source is FULLY_PRESSED,    *)
(* and `elapsed / BUTTON_COOLDOWN` is the number of elapsed ticks.         *)
(* Coordinates of the normalised camera space are kept in hundredths.      *)
(***************************************************************************)
EXTENDS Integers, Sequences, FiniteSets

\* ------------------------------------------------------------------ bounds

\* Largest shift, per axis, of the translations the camera may see.
MaxShift == 1

\* Largest factor, per axis, of the scalings the camera may see.
MaxScale == 2

\* Most frames of the capture that are told apart.
MaxFrames == 2

\* Most failed reads in a row that are counted.
MaxFailedReads == 2

\* Last clock reading of the model: the clock stops there.
MaxTime == 5

\* Most ticks the clock advances between two clock reads of one handler.
MaxSkew == 1

\* Most ticks the clock advances while the loop waits for a video frame.
MaxFrameTicks == 1

\* Most distinct fingertip points the hand model reports in one frame.
MaxPoints == 2

\* --------------------------------------------------------------- constants

\* BUTTON_COOLDOWN: float = 1.5 (seconds), in clock ticks.
BUTTON_COOLDOWN == 2

\* The pressed amount 1.0 ("fully pressed"), in units of 1/BUTTON_COOLDOWN.
FULLY_PRESSED == BUTTON_COOLDOWN

\* `for i in range(6)` and `for j in range(12)` of the marker layout.
MARKER_ROWS == 6
MARKER_COLS == 12

\* projectedCoords[code] = (25+(150*i), 25+(150*j))
MARKER_OFFSET == 25
MARKER_SPACING == 150

\* hotspots = [Hotspot(0, 0.5, 0.5, ...), Hotspot(1, 0.8, 0.8, ...)], with the
\* default radius 0.03; coordinates in hundredths.
HotspotDefs ==
    << [id |-> 0, x |-> 50, y |-> 50, radius |-> 3],
       [id |-> 1, x |-> 80, y |-> 80, radius |-> 3] >>

Hotspots == 1..Len(HotspotDefs)

\* Fingertip landmarks the hand model may report (hundredths): a point
\* exactly on the circle of hotspot 0, one just outside it (and outside
\* hotspot 1), and the centre of hotspot 1.
CandidatePoints ==
    { [x |-> 50, y |-> 53], [x |-> 50, y |-> 54], [x |-> 80, y |-> 80] }

VARIABLES
    now,              \* the last reading of time.time()
    button,           \* button[h]: the _Button of hotspot h
    is_activated,     \* is_activated[h]: Hotspot._is_activated
    time_activated,   \* time_activated[h]: Hotspot._time_activated
    loop,             \* which per-frame loop is running: "run" or "run2"
    module_hotspots,  \* the module-level list `hotspots`, as positions of the
                      \* driven collection it holds
    pc,               \* position of the per-frame loop
    idx,              \* position of `for hotspot in hotspots`
    model_output,     \* the hand model's output for the current frame
    key,              \* the last key read by cv2.waitKey
    events,           \* ids the listener received during the current frame
    just_activated,   \* hotspots whose update returned True this frame
    was_activated,    \* is_activated as it was when the current frame was read
    deactivated_since, \* hotspots deactivated and not passed to update since
    btn,              \* a _Button driven on its own
    bop,              \* the last operation called on btn
    bret,             \* what the last press call on btn returned
    bval,             \* what the last get_pressed_amount call on btn returned
    ep,               \* the charging episode of btn: started from amount 0
    lpc,              \* which marker-layout loop is running
    li,               \* `for i in range(6)` of the layout loop
    lj,               \* `for j in range(12)` of the layout loop
    lcode,            \* `code` of the layout loop
    projectedCoords,  \* projectedCoords of Calibrator.calibrate
    photoCoords,      \* projectedCoords of takePhoto
    hot,              \* a Hotspot driven on its own
    hbefore,          \* hot as it was before the last call on it
    hop,              \* the last operation called on hot
    hprev,            \* the operation called on hot before the last one
    hres,             \* how the last call on hot ended
    hpoints,          \* the points passed to the last update call on hot
    cal,              \* a Calibrator driven on its own
    cop,              \* the last operation called on cal
    cin,              \* the point passed to the last call on cal
    cres,             \* how the last call on cal ended
    cmatches,         \* the marker ids matched by the last calibrate
    cstatus,          \* how the last calibrate or skipCalibration left cal
    cusable,          \* a calibration of cal has succeeded or been skipped
    tpc,              \* position of VideoCaptureThread.run
    is_open,          \* video_capture.isOpened() of the thread's capture
    stopping,         \* VideoCaptureThread.stopping
    current_frame,    \* VideoCaptureThread.current_frame
    frames_read,      \* frames the capture has delivered
    failed_reads,     \* reads that have failed since the last frame
    mpc,              \* position of takePhoto
    image             \* `image` of takePhoto

hvars == << button, is_activated, time_activated, loop, module_hotspots, pc,
            idx, model_output, key, events, just_activated,
            was_activated, deactivated_since >>
bvars == << btn, bop, bret, bval, ep >>
lvars == << lpc, li, lj, lcode, projectedCoords, photoCoords >>
svars == << hot, hbefore, hop, hprev, hres, hpoints >>
cvars == << cal, cop, cin, cres, cmatches, cstatus, cusable >>
tvars == << tpc, is_open, stopping, current_frame, frames_read,
            failed_reads, mpc, image >>
vars == << now, hvars, bvars, lvars, svars, cvars, tvars >>

\* ---------------------------------------------------------------- helpers

Min(a, b) == IF a <= b THEN a ELSE b
Max(a, b) == IF a >= b THEN a ELSE b

\* The readings a call of time.time() may return after the reading t.
ClockReads(t) == { u \in t..(t + MaxSkew) : u <= MaxTime }

\* The readings of the clock once a frame has been read, after the reading t.
FrameReads(t) == { u \in t..(t + MaxFrameTicks) : u <= MaxTime }

\* ---------------------------------------------------------------- _Button

\* _Button.__init__ at clock reading t.
NewButton(t) ==
    [finger_is_over |-> FALSE, prev_time |-> t, prev_pressed_amount |-> 0]

\* get_pressed_amount without its min(1.0, ...) and max(0.0, ...).
get_pressed_amount_unclamped(b, t) ==
    IF b.finger_is_over
    THEN b.prev_pressed_amount + (t - b.prev_time)
    ELSE b.prev_pressed_amount - (t - b.prev_time)

\* _Button.get_pressed_amount, its time.time() returning t.
get_pressed_amount(b, t) ==
    LET time_since_last_change == t - b.prev_time
    IN  IF b.finger_is_over
        THEN Min(FULLY_PRESSED, b.prev_pressed_amount + time_since_last_change)
        ELSE Max(0, b.prev_pressed_amount - time_since_last_change)

\* press without its `self.prev_time = time.time()`.
press_keeps_prev_time(b, t1, t2) ==
    IF ~b.finger_is_over
    THEN [finger_is_over |-> TRUE, prev_time |-> b.prev_time,
          prev_pressed_amount |-> get_pressed_amount(b, t1)]
    ELSE b

\* The _Button after the `if` of press: get_pressed_amount reads the clock
\* at t1, then time.time() returns t2.
press(b, t1, t2) ==
    IF ~b.finger_is_over
    THEN [finger_is_over |-> TRUE, prev_time |-> t2,
          prev_pressed_amount |-> get_pressed_amount(b, t1)]
    ELSE b

\* press returning True for any amount above 0.
press_result_any_amount(b, t3) == get_pressed_amount(b, t3) > 0

\* What press returns: get_pressed_amount() == 1, read at t3 on the _Button
\* left by the `if`.
press_result(b, t3) == get_pressed_amount(b, t3) = FULLY_PRESSED

\* un_press storing the amount 0.
un_press_from_zero(b, t1, t2) ==
    IF b.finger_is_over
    THEN [finger_is_over |-> FALSE, prev_time |-> t2,
          prev_pressed_amount |-> 0]
    ELSE b

\* _Button.un_press, with the same two clock reads.
un_press(b, t1, t2) ==
    IF b.finger_is_over
    THEN [finger_is_over |-> FALSE, prev_time |-> t2,
          prev_pressed_amount |-> get_pressed_amount(b, t1)]
    ELSE b

\* ---------------------------------------------------------------- Hotspot

\* Hotspot._is_point_inside
is_point_inside(h, point) ==
    LET d == HotspotDefs[h]
        squared_dist == (d.x - point.x) * (d.x - point.x)
                        + (d.y - point.y) * (d.y - point.y)
    IN  squared_dist <= d.radius * d.radius

\* The loop of Hotspot.update over the points: finger_inside.
finger_inside(h, points) == \E point \in points : is_point_inside(h, point)

\* deactivate assigning an attribute other than _is_activated.
deactivate_other_attribute(act, h) == act

\* Hotspot.deactivate on hotspot h, as the new _is_activated of all hotspots.
deactivate(act, h) == [act EXCEPT ![h] = FALSE]

\* The arbitration without its inner loop.
deactivate_others_skipped(act, h) == act

\* The inner loop without `if other_hotspot == hotspot: continue`.
deactivate_others_and_self(act, h) == [o \in Hotspots |-> FALSE]

\* `for other_hotspot in hotspots: if other_hotspot == hotspot: continue;
\*  other_hotspot.deactivate()`
deactivate_others(act, h) ==
    [o \in Hotspots |-> IF o = h THEN act[o] ELSE deactivate(act, o)[o]]

\* OnPressDetected(other_hotspot.id): the id of the inner loop's variable,
\* which the loop leaves at the last hotspot of the list.
listener_calls_other_id(ev, l, h) ==
    IF l = "run" THEN Append(ev, HotspotDefs[Len(HotspotDefs)].id) ELSE ev

\* event_listener.OnPressDetected(hotspot.id) of run, as the calls the
\* listener has received; run2 has no such call.
listener_calls(ev, l, h) ==
    IF l = "run" THEN Append(ev, HotspotDefs[h].id) ELSE ev

\* media_finished: deactivate every hotspot of the module-level list.
media_finished(act) ==
    [o \in Hotspots |->
        IF \E k \in 1..Len(module_hotspots) : module_hotspots[k] = o
        THEN deactivate(act, o)[o] ELSE act[o]]

\* Hotspot.__init__ of Hotspot.py, called at clock reading t with the
\* normalised centre (x, y) of definition d.
NewHotspot(d, t) ==
    [id |-> d.id, x |-> d.x, y |-> d.y, radius |-> d.radius,
     button |-> NewButton(t), is_activated |-> FALSE, time_activated |-> 0]

\* Hotspot.__init__ of main.py, called at clock reading t: it stores
\* _proj_pos and _cam_pos (what transform4Mediapipes returned) and assigns
\* neither _x nor _y.
NewCalibratedHotspot(d, proj_pos, t) ==
    [id |-> d.id, proj_pos |-> proj_pos, cam_pos |-> << d.x, d.y >>,
     radius |-> d.radius, button |-> NewButton(t), is_activated |-> FALSE,
     time_activated |-> 0]

\* Whether the attributes self._x and self._y exist on the hotspot.
has_xy(hs) == {"x", "y"} \subseteq DOMAIN hs

\* _is_point_inside with `<` for its `<=`.
Hotspot_is_point_inside_strictly(hs, point) ==
    LET squared_dist == (hs.x - point.x) * (hs.x - point.x)
                        + (hs.y - point.y) * (hs.y - point.y)
    IN  squared_dist < hs.radius * hs.radius

\* Hotspot._is_point_inside on a hotspot object.
Hotspot_is_point_inside(hs, point) ==
    LET squared_dist == (hs.x - point.x) * (hs.x - point.x)
                        + (hs.y - point.y) * (hs.y - point.y)
    IN  squared_dist <= hs.radius * hs.radius

\* activate that keeps the time of an activation already made.
Hotspot_activate_once(hs, t) ==
    IF hs.is_activated THEN hs
    ELSE [hs EXCEPT !.time_activated = t, !.is_activated = TRUE]

\* Hotspot.activate on a hotspot object, its time.time() returning t.
Hotspot_activate(hs, t) ==
    [hs EXCEPT !.time_activated = t, !.is_activated = TRUE]

\* deactivate that also makes a new _Button.
Hotspot_deactivate_new_button(hs) ==
    [hs EXCEPT !.is_activated = FALSE, !.button = NewButton(0)]

\* Hotspot.deactivate on a hotspot object.
Hotspot_deactivate(hs) == [hs EXCEPT !.is_activated = FALSE]

\* How a call ended: the value returned, or the exception raised.
Returned(v) == [ret |-> v, err |-> "none"]
Raised(e) == [ret |-> FALSE, err |-> e]

\* The `else:  # not activated` branch of Hotspot.update: the hotspot it
\* leaves, how the call ended and how many clock reads it made.  The loop
\* over the points raises AttributeError at its first point when the
\* hotspot has no _x and _y.
update_not_activated(hs, points, t1, t2, t3, t4) ==
    IF points # {} /\ ~has_xy(hs)
    THEN [hs |-> hs, res |-> Raised("AttributeError"), reads |-> 0]
    ELSE IF \E point \in points : Hotspot_is_point_inside(hs, point)
    THEN LET pressed == [hs EXCEPT !.button = press(hs.button, t1, t2)]
         IN  IF press_result(pressed.button, t3)
             THEN [hs |-> Hotspot_activate(pressed, t4),
                   res |-> Returned(TRUE), reads |-> 4]
             ELSE [hs |-> pressed, res |-> Returned(FALSE), reads |-> 3]
    ELSE [hs |-> [hs EXCEPT !.button = un_press(hs.button, t1, t2)],
          res |-> Returned(FALSE), reads |-> 2]

\* update without its `if self._is_activated: pass`.
Hotspot_update_always(hs, points, t1, t2, t3, t4) ==
    update_not_activated(hs, points, t1, t2, t3, t4)

\* Hotspot.update on a hotspot object.
Hotspot_update(hs, points, t1, t2, t3, t4) ==
    IF hs.is_activated
    THEN [hs |-> hs, res |-> Returned(FALSE), reads |-> 0]
    ELSE update_not_activated(hs, points, t1, t2, t3, t4)

\* The hotspots a step has deactivated: activated before it, not after.
NewlyDeactivated(before, after) ==
    { h \in Hotspots : before[h] /\ ~after[h] }

\* The module-level list `hotspots` while the given loop runs: run assigns the
\* hotspots it drives to it, run2 drives its parameter and leaves it empty.
ModuleList(l) ==
    IF l = "run" THEN [k \in Hotspots |-> k] ELSE << >>

NoOutput == [hands |-> FALSE, points |-> {}]

\* What hands_model.process may return: multi_hand_landmarks None, or the
\* fingertips of the detected hands.
ModelOutputs ==
    {NoOutput} \cup
    { [hands |-> TRUE, points |-> ps] :
        ps \in { s \in SUBSET CandidatePoints :
                    Cardinality(s) >= 1 /\ Cardinality(s) <= MaxPoints } }

\* ------------------------------------------------------------- Calibrator

\* Python's None, for a matrix, a frame size or a point that is not there.
None == << >>

\* np.identity(3)
Identity3 == << << 1, 0, 0 >>, << 0, 1, 0 >>, << 0, 0, 1 >> >>

\* The shape of the photo takePhoto returns: the capture thread resizes every
\* frame to 480 rows, 640 columns for a 4:3 camera.
PhotoShape == << 480, 640 >>

Abs(n) == IF n < 0 THEN -n ELSE n

RECURSIVE GCD(_, _)
GCD(a, b) == IF b = 0 THEN a ELSE GCD(b, a % b)

\* A point with rational coordinates is kept as << x, y, w >>, standing for
\* (x/w, y/w), in lowest terms with w > 0.
Normalize(p) ==
    LET g == GCD(GCD(Abs(p[1]), Abs(p[2])), Abs(p[3]))
        sgn == IF p[3] < 0 THEN -1 ELSE 1
    IN  << sgn * (p[1] \div g), sgn * (p[2] \div g), sgn * (p[3] \div g) >>

\* The tuple (x, y) of integers, as a point.
Pt(x, y) == << x, y, 1 >>

\* The tuple (v[1], v[0]).
Exchanged(v) == << v[2], v[1], v[3] >>

\* How a call on the Calibrator ended: with a point, with None, or with an
\* exception raised.
PointOutcome(point) == [err |-> "none", point |-> point]
NoneOutcome == [err |-> "none", point |-> None]
ErrorOutcome(e) == [err |-> e, point |-> None]

\* perspectiveTransform taking a None matrix for the identity.
perspectiveTransform_none_as_identity(v, m) ==
    LET mm == IF m = None THEN Identity3 ELSE m
    IN  PointOutcome(Normalize(
           << mm[1][1] * v[1] + mm[1][2] * v[2] + mm[1][3] * v[3],
              mm[2][1] * v[1] + mm[2][2] * v[2] + mm[2][3] * v[3],
              mm[3][1] * v[1] + mm[3][2] * v[2] + mm[3][3] * v[3] >>))

\* cv2.perspectiveTransform(rotatedVector, m)[0][0]: (x', y', w') = m.(x, y, 1)
\* and the point (x'/w', y'/w'); a None matrix is an empty one, which the
\* library rejects by raising cv2.error.
perspectiveTransform(v, m) ==
    IF m = None THEN ErrorOutcome("cv2.error")
    ELSE PointOutcome(Normalize(
           << m[1][1] * v[1] + m[1][2] * v[2] + m[1][3] * v[3],
              m[2][1] * v[1] + m[2][2] * v[2] + m[2][3] * v[3],
              m[3][1] * v[1] + m[3][2] * v[2] + m[3][3] * v[3] >>))

\* Calibrator.__init__
NewCalibrator ==
    [tMatrix |-> None, inverseTMatrix |-> None,
     cameraWidth |-> None, cameraHeight |-> None]

\* Calibrator.skipCalibration
skipCalibration(c) ==
    [c EXCEPT !.tMatrix = Identity3, !.inverseTMatrix = Identity3]

\* Calibrator._getTransformationMatrix: matches are the ids in both
\* dictionaries and fit is what cv2.findHomography(...)[0] returns for them.
getTransformationMatrix(matches, fit) ==
    IF Cardinality(matches) < 4 THEN None ELSE fit

\* Calibrator.calibrate, from the photo's shape on: ids are the keys of
\* projectedCoords and detected the ids of the markers found in the photo.
calibrate(c, ids, detected, shape, fit, inverse_fit) ==
    LET matches == ids \cap detected
    IN  [c EXCEPT !.cameraWidth = << shape[1] >>,
                  !.cameraHeight = << shape[2] >>,
                  !.tMatrix = getTransformationMatrix(matches, fit),
                  !.inverseTMatrix =
                      getTransformationMatrix(matches, inverse_fit)]

\* Calibrator.transform
transform(c, vector) ==
    LET transformedVector == perspectiveTransform(vector, c.tMatrix)
    IN  IF transformedVector.err # "none" THEN transformedVector
        ELSE PointOutcome(Exchanged(transformedVector.point))

\* Calibrator.inverseTransform
inverseTransform(c, vector) ==
    LET transformedVector == perspectiveTransform(vector, c.inverseTMatrix)
    IN  IF transformedVector.err # "none" THEN transformedVector
        ELSE PointOutcome(Exchanged(transformedVector.point))

\* Calibrator.transform4Mediapipes: the division by a None frame size raises
\* TypeError, first in the print of (cameraCoords[0]/self._cameraWidth, ...).
transform4Mediapipes(c, coords) ==
    LET cameraCoords == transform(c, coords)
    IN  IF cameraCoords.err # "none" THEN cameraCoords
        ELSE IF c.cameraWidth = None \/ c.cameraHeight = None
        THEN ErrorOutcome("TypeError")
        ELSE LET p == cameraCoords.point
                 w == c.cameraWidth[1]
                 h == c.cameraHeight[1]
             IN  \* (cameraCoords[1]/height, cameraCoords[0]/width)
                 PointOutcome(Normalize(
                    << p[2] * w, p[1] * h, p[3] * w * h >>))

\* ------------------------------------------------------------------- Init

InitButtonAlone ==
    /\ btn = NewButton(0)
    /\ bop = "init"
    /\ bret = FALSE
    /\ bval = 0
    /\ ep = [charging |-> FALSE, t0 |-> 0]

\* The marker layout before Calibrator.calibrate has started its loop.
InitLayout ==
    /\ lpc = "calibrate"
    /\ li = 0
    /\ lj = 0
    /\ lcode = 0
    /\ projectedCoords = << >>
    /\ photoCoords = << >>

\* VideoCaptureThread.__init__, and takePhoto before it starts the thread.
InitCaptureAlone ==
    /\ tpc = "created"
    /\ is_open = FALSE
    /\ stopping = FALSE
    /\ current_frame = None
    /\ frames_read = 0
    /\ failed_reads = 0
    /\ mpc = "start"
    /\ image = None

\* calibrator = Calibrator((1080, 1920))
InitCalibratorAlone ==
    /\ cal = NewCalibrator
    /\ cop = "init"
    /\ cin = None
    /\ cres = NoneOutcome
    /\ cmatches = {}
    /\ cstatus = "new"
    /\ cusable = FALSE

\* The two ways a Hotspot is built: Hotspot(0, 0.5, 0.5, event_listener) of
\* Hotspot.py and Hotspot(0, (700, 700), calibrator, eventLister) of main.py.
InitHotspotAlone ==
    /\ hot \in { NewHotspot(HotspotDefs[1], 0),
                 NewCalibratedHotspot(HotspotDefs[1], << 700, 700 >>, 0) }
    /\ hbefore = hot
    /\ hop = "init"
    /\ hprev = "init"
    /\ hres = Returned(FALSE)
    /\ hpoints = {}

\* The Hotspot on its own, while another part of the program is driven.
InitHotspotFixed ==
    /\ InitHotspotAlone
    /\ has_xy(hot)

InitHotspots ==
    /\ button = [h \in Hotspots |-> NewButton(0)]
    /\ is_activated = [h \in Hotspots |-> FALSE]
    /\ time_activated = [h \in Hotspots |-> 0]
    /\ pc = "read"
    /\ idx = 1
    /\ model_output = NoOutput
    /\ key = ""
    /\ events = << >>
    /\ just_activated = << >>
    /\ was_activated = [h \in Hotspots |-> FALSE]
    /\ deactivated_since = {}

Init ==
    /\ now = 0
    /\ loop \in {"run", "run2"}
    /\ module_hotspots = ModuleList(loop)
    /\ InitHotspots
    /\ InitButtonAlone
    /\ InitLayout
    /\ InitHotspotFixed
    /\ InitCalibratorAlone
    /\ InitCaptureAlone

\* ------------------------------------------------------- the per-frame loop

\* The end of one turn of `for hotspot in hotspots`.
NextHotspot ==
    IF idx < Len(HotspotDefs)
    THEN /\ idx' = idx + 1
         /\ pc' = "update"
    ELSE /\ idx' = idx
         /\ pc' = "key"

\* `while video_capture.isOpened(): success, img = video_capture.read()`, the
\* hand model run on the frame, up to the test of multi_hand_landmarks.
ReadFrame ==
    /\ pc = "read"
    /\ \E t \in FrameReads(now) :
       \E opened \in BOOLEAN, success \in BOOLEAN, out \in ModelOutputs :
          /\ now' = t
          /\ IF ~opened
             THEN /\ pc' = "done"
                  /\ UNCHANGED << idx, model_output, events, just_activated,
                                  was_activated >>
             ELSE IF ~success
             THEN UNCHANGED << pc, idx, model_output, events, just_activated,
                               was_activated >>
             ELSE /\ model_output' = out
                  /\ was_activated' = is_activated
                  /\ events' = << >>
                  /\ just_activated' = << >>
                  /\ idx' = 1
                  /\ pc' = IF out.hands THEN "update" ELSE "key"
    /\ UNCHANGED << button, is_activated, time_activated, loop,
                    module_hotspots, key, deactivated_since >>
    /\ UNCHANGED << bvars, lvars, svars, cvars, tvars >>

\* hotspot.update(fingertip_coords) on the hotspot at position idx.
Update ==
    /\ pc = "update"
    /\ LET h == idx
           b == button[h]
       IN  IF is_activated[h]
           THEN /\ UNCHANGED << now, button, is_activated, time_activated,
                                just_activated >>
                /\ NextHotspot
           ELSE IF finger_inside(h, model_output.points)
           THEN \E t1 \in ClockReads(now) : \E t2 \in ClockReads(t1) :
                \E t3 \in ClockReads(t2) : \E t4 \in ClockReads(t3) :
                   /\ b.finger_is_over => (t1 = now /\ t2 = now)
                   /\ button' = [button EXCEPT ![h] = press(b, t1, t2)]
                   /\ IF press_result(press(b, t1, t2), t3)
                      THEN \* self.activate(); return True
                           /\ time_activated' =
                                 [time_activated EXCEPT ![h] = t4]
                           /\ is_activated' = [is_activated EXCEPT ![h] = TRUE]
                           /\ now' = t4
                           /\ just_activated' = Append(just_activated, h)
                           /\ pc' = "arbitrate"
                           /\ idx' = idx
                      ELSE /\ t4 = t3
                           /\ now' = t3
                           /\ UNCHANGED << is_activated, time_activated,
                                           just_activated >>
                           /\ NextHotspot
           ELSE \E t1 \in ClockReads(now) : \E t2 \in ClockReads(t1) :
                   /\ ~b.finger_is_over => (t1 = now /\ t2 = now)
                   /\ button' = [button EXCEPT ![h] = un_press(b, t1, t2)]
                   /\ now' = t2
                   /\ UNCHANGED << is_activated, time_activated,
                                   just_activated >>
                   /\ NextHotspot
    /\ deactivated_since' = deactivated_since \ {idx}
    /\ UNCHANGED << loop, module_hotspots, model_output, key, events,
                    was_activated >>
    /\ UNCHANGED << bvars, lvars, svars, cvars, tvars >>

\* `if hotspot_just_activated:` deactivate the other hotspots and, in run,
\* event_listener.OnPressDetected(hotspot.id); run2 calls no listener.
Arbitrate ==
    /\ pc = "arbitrate"
    /\ is_activated' = deactivate_others(is_activated, idx)
    /\ events' = listener_calls(events, loop, idx)
    /\ deactivated_since' =
          deactivated_since \cup NewlyDeactivated(is_activated, is_activated')
    /\ NextHotspot
    /\ UNCHANGED << now, button, time_activated, loop, module_hotspots,
                    model_output, key, just_activated, was_activated >>
    /\ UNCHANGED << bvars, lvars, svars, cvars, tvars >>

\* `key = chr(cv2.waitKey(1) & 0xFF).lower()`: "c" calls media_finished, "q"
\* leaves the loop.
WaitKey ==
    /\ pc = "key"
    /\ \E k \in {"c", "q", "other"} :
          /\ key' = k
          /\ is_activated' = IF k = "c" THEN media_finished(is_activated)
                             ELSE is_activated
          /\ pc' = IF k = "q" THEN "done" ELSE "read"
    /\ deactivated_since' =
          deactivated_since \cup NewlyDeactivated(is_activated, is_activated')
    /\ UNCHANGED << now, button, time_activated, loop, module_hotspots, idx,
                    model_output, events, just_activated, was_activated >>
    /\ UNCHANGED << bvars, lvars, svars, cvars, tvars >>

Next == ReadFrame \/ Update \/ Arbitrate \/ WaitKey

Spec == Init /\ [][Next]_vars

\* --------------------------------------------------- a _Button on its own

\* The charging episode after a press call: it starts when press switches a
\* _Button whose amount is 0 to finger-over (t0 is the time press stored),
\* and lasts while the finger stays over.
EpisodeAfterPress(b, t1, t2) ==
    IF b.finger_is_over THEN ep
    ELSE IF get_pressed_amount(b, t1) = 0
         THEN [charging |-> TRUE, t0 |-> t2]
         ELSE [charging |-> FALSE, t0 |-> 0]

\* A call of btn.press().
BtnPress ==
    /\ \E t1 \in ClockReads(now) : \E t2 \in ClockReads(t1) :
       \E t3 \in ClockReads(t2) :
          /\ btn.finger_is_over => (t1 = now /\ t2 = now)
          /\ btn' = press(btn, t1, t2)
          /\ bret' = press_result(press(btn, t1, t2), t3)
          /\ bval' = get_pressed_amount(press(btn, t1, t2), t3)
          /\ ep' = EpisodeAfterPress(btn, t1, t2)
          /\ now' = t3
    /\ bop' = "press"
    /\ UNCHANGED << hvars, lvars, svars, cvars, tvars >>

\* A call of btn.un_press().
BtnUnPress ==
    /\ \E t1 \in ClockReads(now) : \E t2 \in ClockReads(t1) :
          /\ ~btn.finger_is_over => (t1 = now /\ t2 = now)
          /\ btn' = un_press(btn, t1, t2)
          /\ now' = t2
    /\ ep' = [charging |-> FALSE, t0 |-> 0]
    /\ bop' = "un_press"
    /\ UNCHANGED << bret, bval >>
    /\ UNCHANGED << hvars, lvars, svars, cvars, tvars >>

\* A call of btn.get_pressed_amount(), as Hotspot.draw makes, after the clock
\* has advanced as it does between two frames.
BtnRead ==
    /\ \E t \in FrameReads(now) :
          /\ bval' = get_pressed_amount(btn, t)
          /\ now' = t
    /\ bop' = "read"
    /\ UNCHANGED << btn, bret, ep >>
    /\ UNCHANGED << hvars, lvars, svars, cvars, tvars >>

InitButton ==
    /\ now = 0
    /\ loop = "run"
    /\ module_hotspots = ModuleList(loop)
    /\ InitHotspots
    /\ InitButtonAlone
    /\ InitLayout
    /\ InitHotspotFixed
    /\ InitCalibratorAlone
    /\ InitCaptureAlone

NextButton == BtnPress \/ BtnUnPress \/ BtnRead

SpecButton == InitButton /\ [][NextButton]_vars

\* ------------------------------------------------------ the marker layout

\* The nested loops with the ranges exchanged: `for i in range(12)`,
\* `for j in range(6)`.
next_cell_ranges_exchanged(i, j) ==
    IF j + 1 < MARKER_ROWS THEN << i, j + 1 >> ELSE << i + 1, 0 >>

\* `for i in range(6): for j in range(12)`: the (i, j) of the next turn.
next_cell(i, j) ==
    IF j + 1 < MARKER_COLS THEN << i, j + 1 >> ELSE << i + 1, 0 >>

\* The position with i and j exchanged.
marker_position_exchanged(i, j) ==
    << MARKER_OFFSET + MARKER_SPACING * j, MARKER_OFFSET + MARKER_SPACING * i >>

\* (25+(150*i), 25+(150*j))
marker_position(i, j) ==
    << MARKER_OFFSET + MARKER_SPACING * i, MARKER_OFFSET + MARKER_SPACING * j >>

\* dict[code] = position
DictSet(dict, code, position) ==
    [c \in (DOMAIN dict) \cup {code} |->
        IF c = code THEN position ELSE dict[c]]

\* One turn of the inner loop of Calibrator.calibrate's layout; after the
\* last turn calibrate goes on to takePhoto.
CalibrateLayoutStep ==
    /\ lpc = "calibrate"
    /\ projectedCoords' = DictSet(projectedCoords, lcode, marker_position(li, lj))
    /\ IF next_cell(li, lj)[1] < MARKER_ROWS
       THEN /\ li' = next_cell(li, lj)[1]
            /\ lj' = next_cell(li, lj)[2]
            /\ lcode' = lcode + 1
            /\ lpc' = lpc
       ELSE /\ li' = 0
            /\ lj' = 0
            /\ lcode' = 0
            /\ lpc' = "takePhoto"
    /\ UNCHANGED photoCoords
    /\ UNCHANGED << now, hvars, bvars, svars, cvars, tvars >>

\* One turn of the inner loop of takePhoto's layout.
TakePhotoLayoutStep ==
    /\ lpc = "takePhoto"
    /\ photoCoords' = DictSet(photoCoords, lcode, marker_position(li, lj))
    /\ IF next_cell(li, lj)[1] < MARKER_ROWS
       THEN /\ li' = next_cell(li, lj)[1]
            /\ lj' = next_cell(li, lj)[2]
            /\ lcode' = lcode + 1
            /\ lpc' = lpc
       ELSE /\ UNCHANGED << li, lj, lcode >>
            /\ lpc' = "done"
    /\ UNCHANGED projectedCoords
    /\ UNCHANGED << now, hvars, bvars, svars, cvars, tvars >>

InitMarkerLayout ==
    /\ now = 0
    /\ loop = "run2"
    /\ module_hotspots = ModuleList(loop)
    /\ InitHotspots
    /\ InitButtonAlone
    /\ InitLayout
    /\ InitHotspotFixed
    /\ InitCalibratorAlone
    /\ InitCaptureAlone

NextLayout == CalibrateLayoutStep \/ TakePhotoLayoutStep

SpecLayout == InitMarkerLayout /\ [][NextLayout]_vars

\* --------------------------------------------------- a Hotspot on its own

\* The fingertip points a caller may pass to update: any list, empty or not.
PointLists ==
    { ps \in SUBSET CandidatePoints : Cardinality(ps) <= MaxPoints }

\* A call of hot.update(points).
HsUpdate ==
    /\ \E points \in PointLists :
       \E t1 \in ClockReads(now) : \E t2 \in ClockReads(t1) :
       \E t3 \in ClockReads(t2) : \E t4 \in ClockReads(t3) :
          LET r == Hotspot_update(hot, points, t1, t2, t3, t4)
          IN  /\ r.reads = 0 => (t1 = now /\ t2 = now)
              /\ r.reads <= 2 => t3 = t2
              /\ r.reads <= 3 => t4 = t3
              /\ hot' = r.hs
              /\ hres' = r.res
              /\ hpoints' = points
              /\ now' = t4
    /\ hbefore' = hot
    /\ hprev' = hop
    /\ hop' = "update"
    /\ UNCHANGED << hvars, bvars, lvars, cvars, tvars >>

\* A call of hot.activate().
HsActivate ==
    /\ \E t \in ClockReads(now) :
          /\ hot' = Hotspot_activate(hot, t)
          /\ now' = t
    /\ hres' = Returned(FALSE)
    /\ hbefore' = hot
    /\ hprev' = hop
    /\ hop' = "activate"
    /\ hpoints' = {}
    /\ UNCHANGED << hvars, bvars, lvars, cvars, tvars >>

\* A call of hot.deactivate().
HsDeactivate ==
    /\ hot' = Hotspot_deactivate(hot)
    /\ hres' = Returned(FALSE)
    /\ hbefore' = hot
    /\ hprev' = hop
    /\ hop' = "deactivate"
    /\ hpoints' = {}
    /\ UNCHANGED << now, hvars, bvars, lvars, cvars, tvars >>

\* Time passing between two calls on hot.
HsWait ==
    /\ now < MaxTime
    /\ now' = now + 1
    /\ hbefore' = hot
    /\ hprev' = hop
    /\ hop' = "wait"
    /\ UNCHANGED << hot, hres, hpoints >>
    /\ UNCHANGED << hvars, bvars, lvars, cvars, tvars >>

InitHotspot ==
    /\ now = 0
    /\ loop = "run2"
    /\ module_hotspots = ModuleList(loop)
    /\ InitHotspots
    /\ InitButtonAlone
    /\ InitLayout
    /\ InitHotspotAlone
    /\ InitCalibratorAlone
    /\ InitCaptureAlone

NextHotspotAlone == HsUpdate \/ HsActivate \/ HsDeactivate \/ HsWait

SpecHotspot == InitHotspot /\ [][NextHotspotAlone]_vars

\* ------------------------------------------------ a Calibrator on its own

\* The keys of projectedCoords once the loops of calibrate have ended: code
\* counts the cells from 0.
layout_ids == 0..(MARKER_ROWS * MARKER_COLS - 1)

\* projectedCoords[code] once the loops have ended: the loops reach code in
\* the cell i = code div 12, j = code mod 12.
layout_position(code) ==
    marker_position(code \div MARKER_COLS, code % MARKER_COLS)

\* Marker ids aruco.detectMarkers may report: the corners of one cell of the
\* layout (0, 1, 12, 13), a third marker on the line of 0 and 1, and an id
\* of DICT_7X7_100 that the layout does not use.
MarkerPool == {0, 1, 2, 12, 13, 99}

Translation(tx, ty) == << << 1, 0, tx >>, << 0, 1, ty >>, << 0, 0, 1 >> >>
Scaling(sx, sy) == << << sx, 0, 0 >>, << 0, sy, 0 >>, << 0, 0, 1 >> >>

\* The maps from the projected positions to the positions in the photo.
GroundMaps ==
    { Translation(tx, ty) : tx \in 0..MaxShift, ty \in 0..MaxShift } \cup
    { Scaling(sx, sy) : sx \in 1..MaxScale, sy \in 1..MaxScale }

\* The matrix of the inverse map of a translation or scaling m, as a
\* homography (up to its scale factor).
Inverse(m) ==
    << << m[2][2], 0, -(m[2][2] * m[1][3]) >>,
       << 0, m[1][1], -(m[1][1] * m[2][3]) >>,
       << 0, 0, m[1][1] * m[2][2] >> >>

Collinear(a, b, c) ==
    (b[1] - a[1]) * (c[2] - a[2]) = (b[2] - a[2]) * (c[1] - a[1])

\* Four of the matched markers have no three positions on one line: the
\* correspondences then determine the homography.
GeneralPosition(matches) ==
    \E a \in matches : \E b \in matches :
       /\ a < b
       /\ \E c \in matches :
             /\ b < c
             /\ ~Collinear(layout_position(a), layout_position(b),
                           layout_position(c))
             /\ \E d \in matches :
                   /\ c < d
                   /\ ~Collinear(layout_position(a), layout_position(b),
                                 layout_position(d))
                   /\ ~Collinear(layout_position(a), layout_position(c),
                                 layout_position(d))
                   /\ ~Collinear(layout_position(b), layout_position(c),
                                 layout_position(d))

\* What cv2.findHomography(...)[0] may return for the matches when the photo
\* shows the layout through the map g: g itself when the matches determine
\* it, and otherwise no matrix or some matrix.  With fewer than 4 matches it
\* is not called.
FitResults(matches, determined, g) ==
    IF Cardinality(matches) < 4 THEN {None}
    ELSE IF determined THEN {g} ELSE {None, g}

\* The same for the call with the two dictionaries exchanged.
InverseFitResults(matches, determined, g) ==
    IF Cardinality(matches) < 4 THEN {None}
    ELSE IF determined THEN {Inverse(g)} ELSE {None, Inverse(g)}

\* The points passed to the transforms: hotspot positions of demo, marker
\* positions, and points off the diagonal.
SamplePoints ==
    { Pt(0, 0), Pt(100, 100), Pt(700, 700), Pt(25, 175), Pt(3, 5) }

\* A call of cal.skipCalibration().
CalSkip ==
    /\ cal' = skipCalibration(cal)
    /\ cop' = "skipCalibration"
    /\ cin' = None
    /\ cres' = NoneOutcome
    /\ cstatus' = "skipped"
    /\ cusable' = TRUE
    /\ UNCHANGED cmatches
    /\ UNCHANGED << now, hvars, bvars, lvars, svars, tvars >>

\* A call of cal.calibrate(): the photo shows the markers `detected` through
\* the map g (any map when too few markers match for a fit to be made).
CalCalibrate ==
    /\ \E detected \in SUBSET MarkerPool :
       \E matches \in {layout_ids \cap detected} :
       \E determined \in {GeneralPosition(matches)} :
       \E g \in (IF Cardinality(matches) < 4 THEN {Identity3}
                 ELSE GroundMaps) :
           \E fit \in FitResults(matches, determined, g) :
           \E inverse_fit \in InverseFitResults(matches, determined, g) :
              /\ cal' = calibrate(cal, layout_ids, detected, PhotoShape,
                                  fit, inverse_fit)
              /\ cmatches' = matches
              /\ cstatus' = IF Cardinality(matches) < 4 THEN "insufficient"
                            ELSE IF determined THEN "calibrated"
                            ELSE "degenerate"
              /\ cusable' = (cusable \/ determined)
    /\ cop' = "calibrate"
    /\ cin' = None
    /\ cres' = NoneOutcome
    /\ UNCHANGED << now, hvars, bvars, lvars, svars, tvars >>

\* A call of cal.transform(vector).
CalTransform ==
    /\ \E vector \in SamplePoints :
          /\ cres' = transform(cal, vector)
          /\ cin' = vector
    /\ cop' = "transform"
    /\ UNCHANGED << cal, cmatches, cstatus, cusable >>
    /\ UNCHANGED << now, hvars, bvars, lvars, svars, tvars >>

\* A call of cal.inverseTransform(vector).
CalInverseTransform ==
    /\ \E vector \in SamplePoints :
          /\ cres' = inverseTransform(cal, vector)
          /\ cin' = vector
    /\ cop' = "inverseTransform"
    /\ UNCHANGED << cal, cmatches, cstatus, cusable >>
    /\ UNCHANGED << now, hvars, bvars, lvars, svars, tvars >>

\* A call of cal.transform4Mediapipes(coords).
CalTransform4Mediapipes ==
    /\ \E coords \in SamplePoints :
          /\ cres' = transform4Mediapipes(cal, coords)
          /\ cin' = coords
    /\ cop' = "transform4Mediapipes"
    /\ UNCHANGED << cal, cmatches, cstatus, cusable >>
    /\ UNCHANGED << now, hvars, bvars, lvars, svars, tvars >>

\* cal.inverseTransform(cal.transform(vector))
CalRoundTrip ==
    /\ \E vector \in SamplePoints :
          LET there == transform(cal, vector)
          IN  /\ cres' = IF there.err # "none" THEN there
                         ELSE inverseTransform(cal, there.point)
              /\ cin' = vector
    /\ cop' = "roundTrip"
    /\ UNCHANGED << cal, cmatches, cstatus, cusable >>
    /\ UNCHANGED << now, hvars, bvars, lvars, svars, tvars >>

InitCalibrator ==
    /\ now = 0
    /\ loop = "run2"
    /\ module_hotspots = ModuleList(loop)
    /\ InitHotspots
    /\ InitButtonAlone
    /\ InitLayout
    /\ InitHotspotFixed
    /\ InitCalibratorAlone
    /\ InitCaptureAlone

NextCalibrator ==
    \/ CalSkip
    \/ CalCalibrate
    \/ CalTransform
    \/ CalInverseTransform
    \/ CalTransform4Mediapipes
    \/ CalRoundTrip

SpecCalibrator == InitCalibrator /\ [][NextCalibrator]_vars

\* ------------------------------------- the capture thread and takePhoto

\* video_capture.open(VIDEO_CAPTURE_TARGET, VIDEO_CAPTURE_BACKEND), and the
\* RuntimeError that ends the thread when it fails.
ThreadOpen ==
    /\ tpc = "open"
    /\ \E success \in BOOLEAN :
          /\ is_open' = success
          /\ tpc' = IF success THEN "while" ELSE "raised"
    /\ UNCHANGED << stopping, current_frame, frames_read, failed_reads, mpc,
                    image >>
    /\ UNCHANGED << now, hvars, bvars, lvars, svars, cvars >>

\* `while video_capture.isOpened():`
ThreadWhile ==
    /\ tpc = "while"
    /\ tpc' = IF is_open THEN "read" ELSE "release"
    /\ UNCHANGED << is_open, stopping, current_frame, frames_read,
                    failed_reads, mpc, image >>
    /\ UNCHANGED << now, hvars, bvars, lvars, svars, cvars >>

\* `success, video_capture_img = video_capture.read()`: a failed read goes
\* back to the `while` by `continue`; a frame is converted, resized and
\* stored in current_frame.
ThreadRead ==
    /\ tpc = "read"
    /\ \E success \in BOOLEAN :
          IF ~success
          THEN /\ failed_reads' = Min(failed_reads + 1, MaxFailedReads)
               /\ tpc' = "while"
               /\ UNCHANGED << current_frame, frames_read >>
          ELSE /\ frames_read' = Min(frames_read + 1, MaxFrames)
               /\ current_frame' = << Min(frames_read + 1, MaxFrames) >>
               /\ failed_reads' = 0
               /\ tpc' = "stopping"
    /\ UNCHANGED << is_open, stopping, mpc, image >>
    /\ UNCHANGED << now, hvars, bvars, lvars, svars, cvars >>

\* `if self.stopping: break`, the last statement of the loop body.
ThreadTestStopping ==
    /\ tpc = "stopping"
    /\ tpc' = IF stopping THEN "release" ELSE "while"
    /\ UNCHANGED << is_open, stopping, current_frame, frames_read,
                    failed_reads, mpc, image >>
    /\ UNCHANGED << now, hvars, bvars, lvars, svars, cvars >>

\* video_capture.release(), after which run returns.
ThreadRelease ==
    /\ tpc = "release"
    /\ is_open' = FALSE
    /\ tpc' = "ended"
    /\ UNCHANGED << stopping, current_frame, frames_read, failed_reads, mpc,
                    image >>
    /\ UNCHANGED << now, hvars, bvars, lvars, svars, cvars >>

CaptureThreadStep ==
    \/ ThreadOpen
    \/ ThreadWhile
    \/ ThreadRead
    \/ ThreadTestStopping
    \/ ThreadRelease

\* videoCaptureThread.start(); image = None
PhotoStart ==
    /\ mpc = "start"
    /\ tpc' = "open"
    /\ image' = None
    /\ mpc' = "while"
    /\ UNCHANGED << is_open, stopping, current_frame, frames_read,
                    failed_reads >>
    /\ UNCHANGED << now, hvars, bvars, lvars, svars, cvars >>

\* `while image is None: image = videoCaptureThread.current_frame`
PhotoPoll ==
    /\ mpc = "while"
    /\ IF image = None
       THEN /\ image' = current_frame
            /\ mpc' = "waitKey"
       ELSE /\ image' = image
            /\ mpc' = "stop"
    /\ UNCHANGED << tpc, is_open, stopping, current_frame, frames_read,
                    failed_reads >>
    /\ UNCHANGED << now, hvars, bvars, lvars, svars, cvars >>

\* cv2.waitKey(500)
PhotoWaitKey ==
    /\ mpc = "waitKey"
    /\ mpc' = "while"
    /\ UNCHANGED << tpc, is_open, stopping, current_frame, frames_read,
                    failed_reads, image >>
    /\ UNCHANGED << now, hvars, bvars, lvars, svars, cvars >>

\* videoCaptureThread.stop()
PhotoStop ==
    /\ mpc = "stop"
    /\ stopping' = TRUE
    /\ mpc' = "join"
    /\ UNCHANGED << tpc, is_open, current_frame, frames_read, failed_reads,
                    image >>
    /\ UNCHANGED << now, hvars, bvars, lvars, svars, cvars >>

\* videoCaptureThread.join() returns once run has ended; return image
PhotoJoin ==
    /\ mpc = "join"
    /\ tpc \in {"ended", "raised"}
    /\ mpc' = "returned"
    /\ UNCHANGED << tpc, is_open, stopping, current_frame, frames_read,
                    failed_reads, image >>
    /\ UNCHANGED << now, hvars, bvars, lvars, svars, cvars >>

TakePhotoStep ==
    \/ PhotoStart
    \/ PhotoPoll
    \/ PhotoWaitKey
    \/ PhotoStop
    \/ PhotoJoin

InitCapture ==
    /\ now = 0
    /\ loop = "run2"
    /\ module_hotspots = ModuleList(loop)
    /\ InitHotspots
    /\ InitButtonAlone
    /\ InitLayout
    /\ InitHotspotFixed
    /\ InitCalibratorAlone
    /\ InitCaptureAlone

NextCapture == CaptureThreadStep \/ TakePhotoStep

\* Both threads are scheduled by the operating system: each takes its next
\* step if it stays able to.
SpecCapture ==
    /\ InitCapture
    /\ [][NextCapture]_vars
    /\ WF_vars(CaptureThreadStep)
    /\ WF_vars(TakePhotoStep)

\* ------------------------------------------- claims on the per-frame loop

Activated == { h \in Hotspots : is_activated[h] }

\* The ids of a sequence of hotspots.
IdsOf(hs) == [k \in 1..Len(hs) |-> HotspotDefs[hs[k]].id]

\* The hotspots that were not activated when the frame was read and whose
\* update returned True in it: they crossed the threshold in this frame.
Racers ==
    { h \in Hotspots :
        /\ ~was_activated[h]
        /\ \E k \in 1..Len(just_activated) : just_activated[k] = h }

FirstOf(S) == CHOOSE h \in S : \A o \in S : h <= o
LastOf(S) == CHOOSE h \in S : \A o \in S : o <= h

\* C1: mutual exclusion at frame boundaries. Once the loop over the hotspots
\* has finished a frame, at most one hotspot is activated.
MutualExclusionAtFrameEnd ==
    pc \in {"key", "read", "done"} => Cardinality(Activated) <= 1

\* C1 witnessed: a frame has ended in which a hotspot that was activated
\* when the frame was read has been deactivated for a newly activated one.
FrameEndedWithTakeover ==
    /\ pc = "key"
    /\ Cardinality(Activated) = 1
    /\ \E h \in Hotspots : was_activated[h] /\ ~is_activated[h]
    /\ \E h \in Activated : ~was_activated[h]

\* C2 as stated: at no step of a frame are two hotspots activated together.
MutualExclusionMidFrame == Cardinality(Activated) <= 1

\* C2 as amended: two hotspots are activated together only between an update
\* that returned True and the deactivation of the others, and then they are
\* that update's hotspot and at most one hotspot activated before.
TwoActivatedOnlyWhileArbitrating ==
    /\ pc # "arbitrate" => Cardinality(Activated) <= 1
    /\ pc = "arbitrate" =>
          /\ is_activated[idx]
          /\ Cardinality(Activated \ {idx}) <= 1

\* C2 witnessed: an update has returned True while another hotspot is still
\* activated.
BothActivatedWhileArbitrating ==
    /\ pc = "arbitrate"
    /\ Cardinality(Activated) = 2

\* C3 as stated: when two or more hotspots cross the threshold in one frame,
\* the first of them in collection order ends the frame activated and the
\* later ones deactivated.
FirstRacerWins ==
    (pc = "key" /\ Cardinality(Racers) >= 2) =>
        Activated = {FirstOf(Racers)}

\* C3 as amended: the hotspot activated at the end of a frame is the last one
\* whose update returned True in it; when two or more hotspots cross the
\* threshold in one frame the first of them ends the frame deactivated.
LastActivationWins ==
    pc = "key" =>
        /\ just_activated # << >> =>
              Activated = {just_activated[Len(just_activated)]}
        /\ Cardinality(Racers) >= 2 =>
              /\ ~is_activated[FirstOf(Racers)]
              /\ LastOf(Racers) = just_activated[Len(just_activated)]

\* C3 witnessed: both hotspots crossed the threshold in the frame that ended.
TwoRacersInOneFrame ==
    /\ pc = "key"
    /\ Cardinality(Racers) = 2
    /\ is_activated[LastOf(Racers)]

\* C4: exactly one activation event per activation, in run and in run2: the
\* calls the listener received in a frame are the ids of the hotspots whose
\* update returned True, one call each.
OneEventPerActivation ==
    pc # "arbitrate" => events = IdsOf(just_activated)

\* C5 as stated: when several hotspots cross the threshold in one frame, at
\* most one event is delivered in that frame.
OneEventAmongRacers ==
    (pc = "key" /\ Cardinality(Racers) >= 2) => Len(events) <= 1

\* C5 as amended: in run, every hotspot that crosses the threshold in a frame
\* has its own id delivered, once and in collection order, so a frame delivers
\* as many events as hotspots whose update returned True.
EveryRacerHasItsEvent ==
    (loop = "run" /\ pc = "key") =>
        /\ events = IdsOf(just_activated)
        /\ \A j, k \in 1..Len(just_activated) :
              j < k => just_activated[j] < just_activated[k]
        /\ Len(events) >= Cardinality(Racers)

\* C5 witnessed: run delivered two events in one frame.
TwoEventsInOneFrame ==
    /\ loop = "run"
    /\ pc = "key"
    /\ Cardinality(Racers) = 2
    /\ Len(events) = 2

\* C6: media-finished reset. Right after the key "c" has called
\* media_finished, no hotspot driven by the running loop is activated.
MediaFinishedDeactivatesAll ==
    (pc = "read" /\ key = "c") => Activated = {}

\* C7: no detection counts as finger absent. When a frame has been handled
\* in which no fingertip was inside a hotspot that was not activated (points
\* all outside, or no hand detected), its _Button is finger-absent.
NoDetectionIsFingerAbsent ==
    pc = "key" =>
        \A h \in Hotspots :
            (~was_activated[h] /\ ~finger_inside(h, model_output.points))
                => ~button[h].finger_is_over

\* C23: in the per-frame loops with the media_finished hook, a hotspot that
\* is activated has its _Button finger-over with the pressed amount 1, at
\* every step and whatever the fingertips of the frames in between.
ActivatedIsLatched ==
    \A h \in Hotspots :
       is_activated[h] =>
          /\ button[h].finger_is_over
          /\ get_pressed_amount(button[h], now) = FULLY_PRESSED

\* Witness of C23: a frame with fingertips, none of them inside an activated
\* hotspot, has been handled and the hotspot is still activated.
ActivatedThroughFrameWithoutFinger ==
    /\ pc = "key"
    /\ model_output.hands
    /\ \E h \in Hotspots :
          /\ was_activated[h]
          /\ is_activated[h]
          /\ ~finger_inside(h, model_output.points)

\* C24: in run, the first update of a hotspot after it has been deactivated
\* (by media_finished or for another hotspot) activates it at once when a
\* fingertip is inside it, and the listener then receives its id; with no
\* fingertip inside, it leaves the _Button finger-absent with the stored
\* amount 1, from which it decays.
RearmedAtFirstUpdate ==
    [][ /\ (loop = "run" /\ pc = "update" /\ idx \in deactivated_since) =>
           IF finger_inside(idx, model_output.points)
           THEN /\ is_activated'[idx]
                /\ just_activated' = Append(just_activated, idx)
                /\ pc' = "arbitrate"
           ELSE /\ ~is_activated'[idx]
                /\ ~button'[idx].finger_is_over
                /\ button'[idx].prev_pressed_amount = FULLY_PRESSED
        /\ (loop = "run" /\ pc = "arbitrate") =>
              events' = Append(events, HotspotDefs[idx].id)
      ]_vars

\* Witness of C24: in one frame of run, a hotspot that was activated when
\* the frame was read has been deactivated for another one, and its own
\* update, the first since, has returned True.
RearmedInTheSameFrame ==
    /\ loop = "run"
    /\ pc = "arbitrate"
    /\ was_activated[idx]
    /\ is_activated[idx]
    /\ Len(just_activated) = 2
    /\ just_activated[2] = idx

\* ------------------------------------------------- claims on the _Button

\* C8: charging and press result. While a _Button charges from amount 0
\* (press first called at t0, the finger over it ever since), the amount read
\* at time t is min(1, (t - t0)/BUTTON_COOLDOWN), and a press call returns
\* True exactly when it is made at t >= t0 + BUTTON_COOLDOWN.
ChargingFromZero ==
    ep.charging =>
        /\ btn.finger_is_over
        /\ bop \in {"press", "read"}
        /\ bval = Min(FULLY_PRESSED, now - ep.t0)
        /\ get_pressed_amount(btn, now) = Min(FULLY_PRESSED, now - ep.t0)
        /\ bop = "press" => (bret <=> now >= ep.t0 + BUTTON_COOLDOWN)

\* C8 witnessed: a press call of a charging episode has returned True, made
\* after both a half-charged and a first fully charged reading were possible.
ChargedPressReturnedTrue ==
    /\ ep.charging
    /\ bop = "press"
    /\ bret
    /\ now > ep.t0 + BUTTON_COOLDOWN

\* C9: value bounds. The amount get_pressed_amount computes and the stored
\* prev_pressed_amount stay within [0, 1].
ValueBounds ==
    /\ btn.prev_pressed_amount >= 0
    /\ btn.prev_pressed_amount <= FULLY_PRESSED
    /\ bval >= 0
    /\ bval <= FULLY_PRESSED

\* C9 witnessed: un_press has stored the amount of a _Button whose finger
\* had been over it for longer than BUTTON_COOLDOWN.
SaturatedAmountStored ==
    /\ bop = "un_press"
    /\ ~btn.finger_is_over
    /\ btn.prev_pressed_amount = FULLY_PRESSED
    /\ now > BUTTON_COOLDOWN

\* C10: continuity at transitions. Whenever press or un_press flips
\* finger_is_over, the amount it stores is the amount the formula in force
\* before the flip gives at the stored prev_time.
ContinuityAtTransitions ==
    [][ btn'.finger_is_over # btn.finger_is_over =>
            btn'.prev_pressed_amount = get_pressed_amount(btn, btn'.prev_time)
      ]_vars

\* --------------------------------------------- claims on the marker layout

\* The position the layout formula gives marker `code`: row = code div cols,
\* col = code mod cols.
FormulaPosition(code) ==
    << MARKER_OFFSET + MARKER_SPACING * (code \div MARKER_COLS),
       MARKER_OFFSET + MARKER_SPACING * (code % MARKER_COLS) >>

FollowsFormula(dict) ==
    /\ \E n \in 0..(MARKER_ROWS * MARKER_COLS) : DOMAIN dict = 0..(n - 1)
    /\ \A c \in DOMAIN dict : dict[c] = FormulaPosition(c)
    /\ \A c, d \in DOMAIN dict : c # d => dict[c] # dict[d]

\* C18: marker layout formula. Ids are given in row-major order from 0, the
\* marker `code` is at (offset + spacing*row, offset + spacing*col), distinct
\* ids have distinct positions, and the layout calibrate renders and fits
\* with is the one takePhoto builds, of rows*cols markers.
MarkerLayoutFormula ==
    /\ FollowsFormula(projectedCoords)
    /\ FollowsFormula(photoCoords)
    /\ lpc # "calibrate" =>
          DOMAIN projectedCoords = 0..(MARKER_ROWS * MARKER_COLS - 1)
    /\ lpc = "done" => photoCoords = projectedCoords

\* C18 witnessed: both layouts are complete.
BothLayoutsBuilt ==
    /\ lpc = "done"
    /\ (MARKER_ROWS * MARKER_COLS - 1) \in DOMAIN projectedCoords
    /\ (MARKER_ROWS * MARKER_COLS - 1) \in DOMAIN photoCoords

\* C19 as stated: marker 0 is at (25, 25) and marker 13 at (25, 175).
Marker13AtRow0 ==
    /\ 0 \in DOMAIN projectedCoords => projectedCoords[0] = << 25, 25 >>
    /\ 13 \in DOMAIN projectedCoords => projectedCoords[13] = << 25, 175 >>

\* C19 as amended: marker 0 is at (25, 25) and marker 13, in row 1 and
\* column 1, at (175, 175).
Marker13AtRow1 ==
    /\ 0 \in DOMAIN projectedCoords => projectedCoords[0] = << 25, 25 >>
    /\ 13 \in DOMAIN projectedCoords => projectedCoords[13] = << 175, 175 >>

\* C19 witnessed: the layout holds the markers 0 and 13.
Markers0And13Placed ==
    /\ 0 \in DOMAIN projectedCoords
    /\ 13 \in DOMAIN projectedCoords

\* --------------------------------------------- claims on the Hotspot alone

ActivatedTwice == hop = "activate" /\ hprev = "activate"
DeactivatedTwice == hop = "deactivate" /\ hprev = "deactivate"

\* C11, as stated: a second deactivate leaves the whole hotspot as the first
\* left it, and so does a second activate, _time_activated included.
ActivateAndDeactivateIdempotent ==
    (ActivatedTwice \/ DeactivatedTwice) => hot = hbefore

\* C11, amended: a second deactivate leaves the whole hotspot as the first
\* left it; a second activate leaves everything as the first left it except
\* _time_activated, which becomes the clock reading of the second call.
SecondActivateRestamps ==
    /\ DeactivatedTwice => hot = hbefore
    /\ ActivatedTwice =>
          /\ hot = [hbefore EXCEPT !.time_activated = now]
          /\ hbefore.is_activated

\* Witness of C11: activate was called twice, the second call at a later
\* clock reading than the first.
ActivatedTwiceLater == ActivatedTwice /\ hbefore.time_activated < now

\* C12: deactivate changes nothing but _is_activated: the _Button, the
\* geometry, the id and _time_activated are as before, and the pressed amount
\* read right after the call is the one read right before it.
DeactivateChangesOnlyFlag ==
    hop = "deactivate" =>
       /\ ~hot.is_activated
       /\ hot = [hbefore EXCEPT !.is_activated = FALSE]
       /\ get_pressed_amount(hot.button, now)
             = get_pressed_amount(hbefore.button, now)

\* Witness of C12: an activated hotspot with a charged _Button was deactivated.
ChargedHotspotDeactivated ==
    /\ hop = "deactivate"
    /\ hbefore.is_activated
    /\ hbefore.time_activated > 0
    /\ get_pressed_amount(hot.button, now) = FULLY_PRESSED

\* C13: update on an activated hotspot returns False and changes nothing of
\* the hotspot, whatever the points.
UpdateWhileActivatedIsNoOp ==
    (hop = "update" /\ hbefore.is_activated) =>
       /\ hres = Returned(FALSE)
       /\ hot = hbefore

\* Witness of C13: update was called on an activated hotspot whose _Button a
\* finger had left before the activation.
UpdatedWhileActivated ==
    /\ hop = "update"
    /\ hbefore.is_activated
    /\ ~hbefore.button.finger_is_over

\* C20: update ends normally, with a boolean, for a hotspot of either
\* constructor and any list of points.
UpdateNeverFails == hop = "update" => hres.err = "none"

\* Some point passed to the last update is inside the circle of hs or
\* exactly on it.
AnyInside(hs) ==
    \E p \in hpoints :
       (hs.x - p.x) * (hs.x - p.x) + (hs.y - p.y) * (hs.y - p.y)
          <= hs.radius * hs.radius

TransformCalls ==
    {"transform", "inverseTransform", "transform4Mediapipes"}

\* C14, as stated: a calibrate that matched fewer than 4 marker ids ends in
\* an error and leaves the calibrator without matrices; one that matched 4 or
\* more markers in general position ends normally with both matrices.
InsufficientMatchesIsError ==
    cop = "calibrate" =>
       /\ Cardinality(cmatches) < 4 =>
             (cres.err # "none" /\ cal.tMatrix = None
                /\ cal.inverseTMatrix = None)
       /\ (Cardinality(cmatches) >= 4 /\ GeneralPosition(cmatches)) =>
             (cres.err = "none" /\ cal.tMatrix \in GroundMaps
                /\ cal.inverseTMatrix = Inverse(cal.tMatrix))

SkipCalibrationIsIdentity ==
    cstatus = "skipped" =>
       /\ cop \in {"transform", "inverseTransform"} =>
             cres = PointOutcome(cin)
       /\ cop = "transform4Mediapipes" => cres.err = "none"

\* C17, as stated: with matrices that are exact inverses of each other,
\* inverseTransform(transform(p)) is p.
RoundTripIsIdentity ==
    (cop = "roundTrip" /\ cstatus = "calibrated"
        /\ cal.inverseTMatrix = Inverse(cal.tMatrix))
       => cres = PointOutcome(cin)

\* --------------------------------------------- claims on the capture thread

\* C22: once stop() has been called on the running thread, run leaves its
\* loop and ends, and the join() that follows returns, whatever reads succeed
\* or fail afterwards.
StopLeadsToJoinReturning ==
    stopping ~> (tpc = "ended" /\ mpc = "returned")

=============================================================================
